---- MODULE Spec2Model ----
(***************************************************************************)
(* Model of the QrCode Lightning web component (value resolution and       *)
(* render scheduling): src/unnamed/part_000, lines 403-661, the newest     *)
(* iteration of the widget.  The operators named QrCodeJs_... are the      *)
(* title, options and field-qualifier code of the first iteration,         *)
(* src/force-app/main/default/lwc/qrCode/qrCode.js.                        *)
(*                                                                         *)
(* JavaScript strings are TLA+ strings.  The two JavaScript "no value"     *)
(* values are the strings Undefined and Null, which no domain of real      *)
(* values contains.  JavaScript numbers (sizes, margins) are written as    *)
(* decimal numerals, e.g. "0.5"; the domains hold no zero.                 *)
(***************************************************************************)
EXTENDS Naturals, Sequences, FiniteSets, TLC

\* ------------------------------------------------------------------ bounds

\* Longest log of external renderer calls that is explored.
MaxCalls == 3

\* Most invocations of loadScript that are explored.
MaxLoadScriptCalls == 2

\* ------------------------------------------------------- JavaScript values

Undefined == "<undefined>"
Null == "<null>"

\* JavaScript truthiness of a string-or-absent value.
Truthy(v) == v \notin {Undefined, Null, ""}

\* a || b
Or(a, b) == IF Truthy(a) THEN a ELSE b

\* The white space String.prototype.trim removes (the model's alphabet has the space only).
IsSpace(c) == c = " "

RECURSIVE TrimLeft(_)
TrimLeft(s) ==
    IF Len(s) = 0 THEN s
    ELSE IF IsSpace(SubSeq(s, 1, 1)) THEN TrimLeft(SubSeq(s, 2, Len(s)))
    ELSE s

RECURSIVE TrimRight(_)
TrimRight(s) ==
    IF Len(s) = 0 THEN s
    ELSE IF IsSpace(SubSeq(s, Len(s), Len(s))) THEN TrimRight(SubSeq(s, 1, Len(s) - 1))
    ELSE s

\* String.prototype.trim
Trim(s) == TrimRight(TrimLeft(s))

\* String.prototype.toLowerCase, character by character
UpperCaseLetters == "ABCDEFGHIJKLMNOPQRSTUVWXYZ"
LowerCaseLetters == "abcdefghijklmnopqrstuvwxyz"

\* The lower-case image of each upper-case letter.
UpperToLower ==
    [c \in {SubSeq(UpperCaseLetters, i, i) : i \in 1..Len(UpperCaseLetters)} |->
        LET i == CHOOSE j \in 1..Len(UpperCaseLetters) : SubSeq(UpperCaseLetters, j, j) = c
        IN  SubSeq(LowerCaseLetters, i, i)]

LowerCaseOf(c) == IF c \in DOMAIN UpperToLower THEN UpperToLower[c] ELSE c

RECURSIVE LowerCaseString(_)
LowerCaseString(s) ==
    IF Len(s) = 0 THEN s
    ELSE LowerCaseOf(SubSeq(s, 1, 1)) \o LowerCaseString(SubSeq(s, 2, Len(s)))

\* Index of the first "." of s, 0 when there is none.
RECURSIVE DotIndexFrom(_, _)
DotIndexFrom(s, i) ==
    IF i > Len(s) THEN 0
    ELSE IF SubSeq(s, i, i) = "." THEN i
    ELSE DotIndexFrom(s, i + 1)

\* ------------------------------------------------------------ input domains

RecordIds == {"001A", "001B"}
ObjectNames == {"Account"}
FieldNames == {" Code__c "}
TitleFieldNames == {"Name"}
ValueSources == {"Provided Value", "URL Parameter"}
UrlParamNames == {"qrv", " k ", " "}
ParamKeys == {"qrv", "k"}
\* Non-empty values a provided value, a URL parameter or a record field can take.
DataValues == {"XYZ", "XYZ2"}
\* Values of the public property providedValue (undefined until assigned).
ProvidedValues == DataValues \cup {Undefined}
\* Values of a record field (null for a field the record leaves empty).
FieldValues == DataValues \cup {Null}
TitleValues == {"Acme", Null}
Errors == {"FetchError"}
\* Values of the styling and logo properties (undefined when the owner sets none).
CornersSquareStyles == {"Extra-rounded", "None", "", Undefined}
CornersDotStyles == {"Dot", "None", Undefined}
DotsTypes == {"Rounded", "Classy", Undefined}
Sizes == {"300", Undefined}
Colors == {"#000000"}
LogoUrls == {"/logo.png", Undefined}
LogoImageSizes == {"0.3", Undefined}
LogoImageMargins == {"10", Undefined}
\* The lower-case forms of the style names, computed once.
LowerCased ==
    [s \in CornersSquareStyles \cup CornersDotStyles \cup DotsTypes |-> LowerCaseString(s)]

\* String.prototype.toLowerCase
ToLowerCase(s) == IF s \in DOMAIN LowerCased THEN LowerCased[s] ELSE LowerCaseString(s)

\* Values of the title properties.
AllTitleFieldNames == {"Name", " Name ", " ", Undefined}
TitleStaticValues == {"My QR", "", Undefined}

\* No record snapshot stored (this.record === undefined).
UndefinedRecord == [id |-> Undefined]

\* The snapshot the record data provider delivers for record rid: the values of
\* the requested (unqualified) fields of that record.
Snapshot(rid, names, val, ttl) ==
    [id |-> rid,
     fields |-> [n \in names |-> IF n = "Name" THEN ttl ELSE val]]

\* No live render handle (this.qrCodeInstance is undefined or null).
NoInstance == [id |-> 0]

\* A live QRCodeStyling instance: its identity and the options it holds.
Instance(n, opts) == [id |-> n, options |-> opts]

\* A navigation context: pageRef.state, a mapping from parameter names to values
\* (Undefined for a parameter the URL does not carry).
NavStates ==
    {[k \in ParamKeys |-> IF k = "qrv" THEN a ELSE b] :
        a \in DataValues \cup {"", Undefined}, b \in {"XYZ", Undefined}}

VARIABLES
    \* public properties (WidgetConfig)
    recordId, objectApiName, qrCodeValueFieldApiName, titleFieldApiName,
    valueSource, providedValue, urlParamName,
    showTitle, titleStaticValue,
    qrCodeHeight, qrCodeWidth, qrCodeDotsColor, qrCodeDotsType, backgroundColor,
    cornersSquareStyle, cornersDotStyle, logoUrl, logoImageSize, logoImageMargin,
    \* private fields
    record, error, urlParamValue, qrCodeInstance,
    qrCodeLibLoaded, domReady, scriptLoadStarted,
    \* environment: the loadScript promise, the mount point, the renderer
    scriptPromise, qrDivPresent, qrDivContent,
    \* observation: the external renderer calls issued so far
    calls,
    \* observation: the number of times loadScript has been invoked
    loadScriptCalls

\* the title, styling and logo properties
appearance == <<showTitle, titleStaticValue,
                qrCodeHeight, qrCodeWidth, qrCodeDotsColor, qrCodeDotsType, backgroundColor,
                cornersSquareStyle, cornersDotStyle, logoUrl, logoImageSize, logoImageMargin>>
config == <<recordId, objectApiName, qrCodeValueFieldApiName, titleFieldApiName,
            valueSource, providedValue, urlParamName, appearance>>
fieldsOfWidget == <<record, error, urlParamValue, qrCodeInstance,
                    qrCodeLibLoaded, domReady, scriptLoadStarted>>
environment == <<scriptPromise, loadScriptCalls, qrDivPresent, qrDivContent>>
vars == <<config, fieldsOfWidget, environment, calls>>

\* ------------------------------------------------------------ mode helpers

UsesRecordField ==
    Truthy(recordId) /\ Truthy(objectApiName) /\ Truthy(qrCodeValueFieldApiName)

\* Mutant of effectiveUrlParamName: the name is not trimmed.
EffectiveUrlParamName_NoTrim == Or(urlParamName, "qrv")

EffectiveUrlParamName == Trim(Or(urlParamName, "qrv"))

\* Mutant of getQualifiedFieldName: the field name is not trimmed.
GetQualifiedFieldName_NoTrim(fieldName) ==
    LET field == Or(fieldName, "")
    IN  IF ~Truthy(field) THEN Null
        ELSE IF ~Truthy(objectApiName) THEN Null
        ELSE objectApiName \o "." \o field

GetQualifiedFieldName(fieldName) ==
    LET field == Trim(Or(fieldName, ""))
    IN  IF ~Truthy(field) THEN Null
        ELSE IF ~Truthy(objectApiName) THEN Null
        ELSE objectApiName \o "." \o field

\* fields getter: the qualified names the record wire subscribes to.
Fields ==
    IF ~UsesRecordField THEN {}
    ELSE {GetQualifiedFieldName(titleFieldApiName),
          GetQualifiedFieldName(qrCodeValueFieldApiName)} \ {Null}

\* lightning/uiRecordApi getFieldValue: the value the snapshot holds for the
\* field named after the object prefix, undefined when it holds none.
GetFieldValue(rec, qualified) ==
    LET dot == DotIndexFrom(qualified, 1)
        name == SubSeq(qualified, dot + 1, Len(qualified))
    IN  IF rec = UndefinedRecord THEN Undefined
        ELSE IF name \in DOMAIN rec.fields THEN rec.fields[name]
        ELSE Undefined

\* The unqualified names of the subscribed fields.
RequestedNames ==
    {SubSeq(q, DotIndexFrom(q, 1) + 1, Len(q)) : q \in Fields}

\* ---------------------------------------------------------- computed values

\* Mutant of qrValueResolved: an empty URL parameter falls back to the provided value.
QrValueResolvedOf_FallsBack(rec, urlv, prov) ==
    IF UsesRecordField THEN
        IF rec = UndefinedRecord THEN Null
        ELSE LET qualified == GetQualifiedFieldName(qrCodeValueFieldApiName)
             IN  IF Truthy(qualified) THEN GetFieldValue(rec, qualified) ELSE Null
    ELSE IF valueSource = "URL Parameter" THEN Or(Or(urlv, prov), Null)
    ELSE Or(prov, Null)

\* qrValueResolved, read with record rec, cached URL parameter value urlv and
\* provided value prov.
QrValueResolvedOf(rec, urlv, prov) ==
    IF UsesRecordField THEN
        IF rec = UndefinedRecord THEN Null
        ELSE LET qualified == GetQualifiedFieldName(qrCodeValueFieldApiName)
             IN  IF Truthy(qualified) THEN GetFieldValue(rec, qualified) ELSE Null
    ELSE IF valueSource = "URL Parameter" THEN Or(urlv, Null)
    ELSE Or(prov, Null)

QrValueResolved == QrValueResolvedOf(record, urlParamValue, providedValue)

HasQrValue == Truthy(QrValueResolved)

\* Mutant of the title getter: the showTitle toggle is not consulted.
Title_IgnoresToggle ==
    LET val == IF record # UndefinedRecord /\ Truthy(titleFieldApiName)
               THEN LET qualified == GetQualifiedFieldName(titleFieldApiName)
                    IN  IF Truthy(qualified) THEN GetFieldValue(record, qualified) ELSE Null
               ELSE Null
    IN  IF Truthy(val) THEN val ELSE Or(titleStaticValue, "QR Code")

\* title getter
Title ==
    IF ~showTitle THEN Null
    ELSE LET val == IF record # UndefinedRecord /\ Truthy(titleFieldApiName)
                    THEN LET qualified == GetQualifiedFieldName(titleFieldApiName)
                         IN  IF Truthy(qualified) THEN GetFieldValue(record, qualified)
                             ELSE Null
                    ELSE Null
         IN  IF Truthy(val) THEN val ELSE Or(titleStaticValue, "QR Code")

\* Mutant of isReadyToRender: the check of qrCodeLibLoaded is forgotten.
IsReadyToRenderOf_NoLibCheck(dom, lib, rec) ==
    IF ~dom THEN FALSE
    ELSE IF UsesRecordField THEN rec # UndefinedRecord
    ELSE TRUE

\* isReadyToRender, read with the given readiness fields.
IsReadyToRenderOf(dom, lib, rec) ==
    IF ~dom \/ ~lib THEN FALSE
    ELSE IF UsesRecordField THEN rec # UndefinedRecord
    ELSE TRUE

IsReadyToRender == IsReadyToRenderOf(domReady, qrCodeLibLoaded, record)

\* ------------------------------------------------------------------ draw QR

\* The type of a corner style in buildOptions:
\* style === 'None' ? undefined : (style || undefined)?.toLowerCase?.()
CornerType(style) ==
    IF style = "None" THEN Undefined
    ELSE IF ~Truthy(style) THEN Undefined
    ELSE ToLowerCase(style)

\* The options object buildOptions assembles, with the given error correction level.
OptionsWith(data, level) ==
    LET dotsType == ToLowerCase(Or(qrCodeDotsType, "Rounded"))
        options ==
            [width |-> qrCodeWidth,
             height |-> qrCodeHeight,
             data |-> data,
             dotsOptions |-> [color |-> qrCodeDotsColor, type |-> dotsType],
             backgroundOptions |-> [color |-> backgroundColor],
             cornersSquareOptions |->
                 [type |-> CornerType(cornersSquareStyle), color |-> qrCodeDotsColor],
             cornersDotOptions |->
                 [type |-> CornerType(cornersDotStyle), color |-> qrCodeDotsColor],
             qrOptions |-> [errorCorrectionLevel |-> level]]
    IN  IF Truthy(logoUrl) THEN
            options @@
            [image |-> logoUrl,
             imageOptions |-> [crossOrigin |-> "anonymous",
                               margin |-> Or(logoImageMargin, "5"),
                               imageSize |-> Or(logoImageSize, "0.5"),
                               hideBackgroundDots |-> TRUE]]
        ELSE options

\* Mutant of buildOptions: the error correction level is medium.
BuildOptions_MediumLevel(data) == OptionsWith(data, "M")

\* buildOptions(data): the options object handed to the renderer.
BuildOptions(data) == OptionsWith(data, "H")

\* ------------------------------------------- the first iteration (qrCode.js)

\* The outcome of a handler that throws a TypeError.
TypeErrorRaised == [raised |-> "TypeError"]

\* v.toLowerCase() throws when v is undefined or null.
ToLowerCaseRaises(v) == v \in {Undefined, Null}

\* style === 'None' ? undefined : style.toLowerCase(), where it does not throw.
QrCodeJs_CornerType(style) ==
    IF style = "None" THEN Undefined ELSE ToLowerCase(style)

\* The options object generateQRCode assembles, or the TypeError it throws.
QrCodeJs_GenerateQRCodeOptions ==
    IF \/ ToLowerCaseRaises(qrCodeDotsType)
       \/ cornersSquareStyle # "None" /\ ToLowerCaseRaises(cornersSquareStyle)
       \/ cornersDotStyle # "None" /\ ToLowerCaseRaises(cornersDotStyle)
    THEN TypeErrorRaised
    ELSE
        LET options ==
                [width |-> qrCodeWidth,
                 height |-> qrCodeHeight,
                 data |-> Or(recordId, "No Data"),
                 dotsOptions |-> [color |-> qrCodeDotsColor,
                                  type |-> ToLowerCase(qrCodeDotsType)],
                 backgroundOptions |-> [color |-> backgroundColor],
                 cornersSquareOptions |->
                     [type |-> QrCodeJs_CornerType(cornersSquareStyle),
                      color |-> qrCodeDotsColor],
                 cornersDotOptions |->
                     [type |-> QrCodeJs_CornerType(cornersDotStyle),
                      color |-> qrCodeDotsColor],
                 qrOptions |-> [errorCorrectionLevel |-> "H"]]
        IN  IF Truthy(logoUrl) THEN
                options @@
                [image |-> logoUrl,
                 imageOptions |-> [crossOrigin |-> "anonymous",
                                   margin |-> Or(logoImageMargin, "5"),
                                   imageSize |-> Or(logoImageSize, "0.5"),
                                   hideBackgroundDots |-> TRUE]]
            ELSE options

\* getQualifiedFieldName of qrCode.js: an absent field name stands for Id.
QrCodeJs_GetQualifiedFieldName(fieldName) ==
    LET field == Trim(Or(fieldName, "Id"))
    IN  IF ~Truthy(objectApiName) THEN Null
        ELSE objectApiName \o "." \o field

\* title getter of qrCode.js
QrCodeJs_Title ==
    IF record # UndefinedRecord
    THEN GetFieldValue(record, QrCodeJs_GetQualifiedFieldName(titleFieldApiName))
    ELSE "QR Code"

\* -------------------------------------------------------------- render step

\* The identity of the next QRCodeStyling instance constructed, after the calls of log.
NewId(log) == Cardinality({i \in 1..Len(log) : log[i].op = "create"}) + 1

\* Mutant of tryRenderOrUpdateQr: a new instance is constructed and appended on
\* every render, whether or not one is live.
TryRenderResult_AlwaysCreate(dom, lib, rec, urlv, div, inst, content, log) ==
    LET value == QrValueResolvedOf(rec, urlv, providedValue)
        options == BuildOptions(value)
        same == [instance |-> inst, content |-> content, calls |-> log]
    IN  IF ~IsReadyToRenderOf(dom, lib, rec) \/ ~div THEN same
        ELSE IF ~Truthy(value) THEN
            [instance |-> NoInstance, content |-> {}, calls |-> log]
        ELSE
            [instance |-> Instance(NewId(log), options),
             content |-> content \cup {NewId(log)},
             calls |-> Append(log, [op |-> "create", id |-> NewId(log),
                                    options |-> options])]

\* Mutant of tryRenderOrUpdateQr: with no value the mount point is emptied but
\* the handle is kept.
TryRenderResult_KeepsHandle(dom, lib, rec, urlv, div, inst, content, log) ==
    LET value == QrValueResolvedOf(rec, urlv, providedValue)
        options == BuildOptions(value)
        same == [instance |-> inst, content |-> content, calls |-> log]
    IN  IF ~IsReadyToRenderOf(dom, lib, rec) \/ ~div THEN same
        ELSE IF ~Truthy(value) THEN
            [instance |-> inst, content |-> {}, calls |-> log]
        ELSE IF inst = NoInstance THEN
            [instance |-> Instance(NewId(log), options),
             content |-> {NewId(log)},
             calls |-> Append(log, [op |-> "create", id |-> NewId(log),
                                    options |-> options])]
        ELSE
            [instance |-> Instance(inst.id, options),
             content |-> content,
             calls |-> Append(log, [op |-> "update", id |-> inst.id,
                                    options |-> options])]

\* Mutant of tryRenderOrUpdateQr: the empty-value branch comes before the
\* readiness and mount-point checks.
TryRenderResult_ClearsFirst(dom, lib, rec, urlv, div, inst, content, log) ==
    LET value == QrValueResolvedOf(rec, urlv, providedValue)
        options == BuildOptions(value)
        same == [instance |-> inst, content |-> content, calls |-> log]
    IN  IF ~Truthy(value) THEN
            IF inst # NoInstance
            THEN [instance |-> NoInstance, content |-> {}, calls |-> log]
            ELSE same
        ELSE IF ~IsReadyToRenderOf(dom, lib, rec) \/ ~div THEN same
        ELSE IF inst = NoInstance THEN
            [instance |-> Instance(NewId(log), options),
             content |-> {NewId(log)},
             calls |-> Append(log, [op |-> "create", id |-> NewId(log),
                                    options |-> options])]
        ELSE
            [instance |-> Instance(inst.id, options),
             content |-> content,
             calls |-> Append(log, [op |-> "update", id |-> inst.id,
                                    options |-> options])]

\* tryRenderOrUpdateQr as a function of what it reads: dom, lib, rec, urlv are
\* domReady, qrCodeLibLoaded, record and urlParamValue, div the mount point's
\* presence, inst the render handle, content the mount point's children and
\* log the renderer calls issued so far.  The result is the handle, the mount
\* point's children and the calls afterwards.
TryRenderResult(dom, lib, rec, urlv, div, inst, content, log) ==
    LET value == QrValueResolvedOf(rec, urlv, providedValue)
        options == BuildOptions(value)
        same == [instance |-> inst, content |-> content, calls |-> log]
    IN  IF ~IsReadyToRenderOf(dom, lib, rec) THEN same
        ELSE IF ~div THEN same
        ELSE IF ~Truthy(value) THEN
            IF inst # NoInstance
            THEN [instance |-> NoInstance, content |-> {}, calls |-> log]
            ELSE same
        ELSE IF inst = NoInstance THEN
            \* qrDiv.innerHTML = ''; new QRCodeStyling(options); append(qrDiv)
            [instance |-> Instance(NewId(log), options),
             content |-> {NewId(log)},
             calls |-> Append(log, [op |-> "create", id |-> NewId(log),
                                    options |-> options])]
        ELSE
            \* this.qrCodeInstance.update(options)
            [instance |-> Instance(inst.id, options),
             content |-> content,
             calls |-> Append(log, [op |-> "update", id |-> inst.id,
                                    options |-> options])]

\* tryRenderOrUpdateQr, run after the calling handler's assignments (dom, lib,
\* rec, urlv, div are the values at that moment).  Runs that would make the
\* log longer than MaxCalls are not explored.
TryRenderOrUpdateQr(dom, lib, rec, urlv, div) ==
    LET r == TryRenderResult(dom, lib, rec, urlv, div,
                             qrCodeInstance, qrDivContent, calls)
    IN  /\ Len(r.calls) <= MaxCalls
        /\ qrCodeInstance' = r.instance
        /\ qrDivContent' = r.content
        /\ calls' = r.calls

\* ---------------------------------------------------------------- handlers

\* Mutant of connectedCallback: the scriptLoadStarted guard is missing, so every
\* connection starts a load.
ConnectedCallback_Reloads ==
    /\ loadScriptCalls < MaxLoadScriptCalls
    /\ scriptLoadStarted' = TRUE
    /\ scriptPromise' = "pending"
    /\ loadScriptCalls' = loadScriptCalls + 1
    /\ UNCHANGED <<config, record, error, urlParamValue, qrCodeInstance,
                   qrCodeLibLoaded, domReady, qrDivPresent, qrDivContent, calls>>

\* connectedCallback: starts the one-shot script load.
ConnectedCallback ==
    /\ IF scriptLoadStarted THEN
           UNCHANGED <<scriptLoadStarted, scriptPromise, loadScriptCalls>>
       ELSE
           /\ scriptLoadStarted' = TRUE
           /\ scriptPromise' = "pending"
           /\ loadScriptCalls' = loadScriptCalls + 1
    /\ UNCHANGED <<config, record, error, urlParamValue, qrCodeInstance,
                   qrCodeLibLoaded, domReady, qrDivPresent, qrDivContent, calls>>

\* Mutant of the loadScript continuation: the flag is set but the
\* evaluate-and-render step is not run.
ScriptLoadResolved_NoEvaluate ==
    /\ scriptPromise = "pending"
    /\ scriptPromise' = "fulfilled"
    /\ UNCHANGED loadScriptCalls
    /\ qrCodeLibLoaded' = TRUE
    /\ UNCHANGED <<config, record, error, urlParamValue, qrCodeInstance, domReady,
                   scriptLoadStarted, qrDivPresent, qrDivContent, calls>>

\* loadScript(...).then(...)
ScriptLoadResolved ==
    /\ scriptPromise = "pending"
    /\ scriptPromise' = "fulfilled"
    /\ UNCHANGED loadScriptCalls
    /\ qrCodeLibLoaded' = TRUE
    /\ TryRenderOrUpdateQr(domReady, TRUE, record, urlParamValue, qrDivPresent)
    /\ UNCHANGED <<config, record, error, urlParamValue, domReady,
                   scriptLoadStarted, qrDivPresent>>

\* loadScript(...).catch(...)
ScriptLoadRejected ==
    /\ scriptPromise = "pending"
    /\ scriptPromise' = "rejected"
    /\ UNCHANGED <<config, fieldsOfWidget, loadScriptCalls, qrDivPresent, qrDivContent,
                   calls>>

\* The component's template (not among the sources): once a render pass has
\* completed, template.querySelector('.qrcode') finds the mount point.
TemplateHasMountPoint == TRUE

\* renderedCallback, run by the framework after a render pass, which has put
\* the template into the DOM.
RenderedCallback ==
    /\ scriptLoadStarted
    /\ qrDivPresent' = TemplateHasMountPoint
    /\ domReady' = TRUE
    /\ TryRenderOrUpdateQr(TRUE, qrCodeLibLoaded, record, urlParamValue, qrDivPresent')
    /\ UNCHANGED <<config, record, error, urlParamValue, qrCodeLibLoaded,
                   scriptLoadStarted, scriptPromise, loadScriptCalls>>

\* Mutant of wiredRecord({ data }): the snapshot is stored but the
\* evaluate-and-render step is not run.
WiredRecordData_NoEvaluate(val, ttl) ==
    /\ scriptLoadStarted
    /\ Truthy(recordId)
    /\ record' = Snapshot(recordId, RequestedNames, val, ttl)
    /\ error' = Undefined
    /\ UNCHANGED <<config, urlParamValue, qrCodeInstance, qrCodeLibLoaded, domReady,
                   scriptLoadStarted, environment, calls>>

\* wiredRecord({ data }): the provider delivers a snapshot of the subscribed record.
WiredRecordData(val, ttl) ==
    /\ scriptLoadStarted
    /\ Truthy(recordId)
    /\ record' = Snapshot(recordId, RequestedNames, val, ttl)
    /\ error' = Undefined
    /\ TryRenderOrUpdateQr(domReady, qrCodeLibLoaded, record', urlParamValue, qrDivPresent)
    /\ UNCHANGED <<config, urlParamValue, qrCodeLibLoaded, domReady,
                   scriptLoadStarted, scriptPromise,
                   loadScriptCalls, qrDivPresent>>

\* Mutant of wiredRecord({ error }): the error is stored but the snapshot is kept.
WiredRecordError_KeepsRecord(err) ==
    /\ scriptLoadStarted
    /\ Truthy(recordId)
    /\ error' = err
    /\ UNCHANGED <<config, record, urlParamValue, qrCodeInstance, qrCodeLibLoaded,
                   domReady, scriptLoadStarted, environment, calls>>

\* wiredRecord({ error })
WiredRecordError(err) ==
    /\ scriptLoadStarted
    /\ Truthy(recordId)
    /\ record' = UndefinedRecord
    /\ error' = err
    /\ UNCHANGED <<config, urlParamValue, qrCodeInstance, qrCodeLibLoaded, domReady,
                   scriptLoadStarted, environment, calls>>

\* Mutant of wiredRecord({}): the empty emission runs the evaluate-and-render step.
WiredRecordEmpty_Evaluates ==
    /\ scriptLoadStarted
    /\ TryRenderOrUpdateQr(domReady, qrCodeLibLoaded, record, urlParamValue, qrDivPresent)
    /\ UNCHANGED <<config, record, error, urlParamValue, qrCodeLibLoaded, domReady,
                   scriptLoadStarted, scriptPromise, loadScriptCalls, qrDivPresent>>

\* wiredRecord({}): the provider's emission that carries neither data nor error.
WiredRecordEmpty ==
    /\ scriptLoadStarted
    /\ UNCHANGED <<config, fieldsOfWidget, environment, calls>>

\* Mutant of wiredPageRef: the URL parameter value is cached but the
\* evaluate-and-render step is not run.
WiredPageRef_NoEvaluate(state) ==
    /\ scriptLoadStarted
    /\ IF UsesRecordField THEN UNCHANGED urlParamValue
       ELSE IF valueSource # "URL Parameter" THEN urlParamValue' = Null
       ELSE LET key == EffectiveUrlParamName
                raw == IF Truthy(key)
                       THEN (IF key \in DOMAIN state THEN state[key] ELSE Undefined)
                       ELSE Null
            IN  urlParamValue' = Or(raw, Null)
    /\ UNCHANGED <<config, record, error, qrCodeInstance, qrCodeLibLoaded, domReady,
                   scriptLoadStarted, scriptPromise,
                   loadScriptCalls, qrDivPresent, qrDivContent, calls>>

\* Mutant of wiredPageRef: the early return for record-field mode is missing.
WiredPageRef_NoRecordModeReturn(state) ==
    /\ scriptLoadStarted
    /\ IF valueSource # "URL Parameter" THEN
           /\ urlParamValue' = Null
           /\ UNCHANGED <<qrCodeInstance, qrDivContent, calls>>
       ELSE
           LET key == EffectiveUrlParamName
               raw == IF Truthy(key)
                      THEN (IF key \in DOMAIN state THEN state[key] ELSE Undefined)
                      ELSE Null
           IN  /\ urlParamValue' = Or(raw, Null)
               /\ TryRenderOrUpdateQr(domReady, qrCodeLibLoaded, record,
                                      urlParamValue', qrDivPresent)
    /\ UNCHANGED <<config, record, error, qrCodeLibLoaded, domReady,
                   scriptLoadStarted, scriptPromise,
                   loadScriptCalls, qrDivPresent>>

\* wiredPageRef(pageRef)
WiredPageRef(state) ==
    /\ scriptLoadStarted
    /\ IF UsesRecordField THEN
           /\ UNCHANGED <<urlParamValue, qrCodeInstance, qrDivContent, calls>>
       ELSE IF valueSource # "URL Parameter" THEN
           /\ urlParamValue' = Null
           /\ UNCHANGED <<qrCodeInstance, qrDivContent, calls>>
       ELSE
           LET key == EffectiveUrlParamName
               raw == IF Truthy(key)
                      THEN (IF key \in DOMAIN state THEN state[key] ELSE Undefined)
                      ELSE Null
           IN  /\ urlParamValue' = Or(raw, Null)
               /\ TryRenderOrUpdateQr(domReady, qrCodeLibLoaded, record,
                                      urlParamValue', qrDivPresent)
    /\ UNCHANGED <<config, record, error, qrCodeLibLoaded, domReady,
                   scriptLoadStarted, scriptPromise,
                   loadScriptCalls, qrDivPresent>>

\* The owner assigns the public property providedValue.
SetProvidedValue(v) ==
    /\ v # providedValue
    /\ providedValue' = v
    /\ UNCHANGED <<recordId, objectApiName, qrCodeValueFieldApiName, titleFieldApiName,
                   valueSource, urlParamName, appearance, fieldsOfWidget, environment,
                   calls>>

\* The owner assigns the public property recordId (the page shows another record).
SetRecordId(r) ==
    /\ Truthy(recordId)
    /\ r # recordId
    /\ recordId' = r
    /\ UNCHANGED <<objectApiName, qrCodeValueFieldApiName, titleFieldApiName,
                   valueSource, providedValue, urlParamName, appearance, fieldsOfWidget,
                   environment, calls>>

\* ------------------------------------------------------------ specification

\* The private fields, the environment and the call log after construction.
InitFields ==
    /\ record = UndefinedRecord
    /\ error = Undefined
    /\ urlParamValue = Undefined
    /\ qrCodeInstance = NoInstance
    /\ qrCodeLibLoaded = FALSE
    /\ domReady = FALSE
    /\ scriptLoadStarted = FALSE
    /\ scriptPromise = "none"
    /\ loadScriptCalls = 0
    /\ qrDivPresent = FALSE
    /\ qrDivContent = {}
    /\ calls = <<>>

\* The title properties as constructed (showTitle is unset, which is falsy).
InitTitleUnset ==
    /\ showTitle = FALSE
    /\ titleStaticValue = Undefined

\* The styling and logo properties as constructed.
InitStylingUnset ==
    /\ qrCodeHeight = Undefined
    /\ qrCodeWidth = Undefined
    /\ qrCodeDotsColor = Undefined
    /\ qrCodeDotsType = "Rounded"
    /\ backgroundColor = Undefined
    /\ cornersSquareStyle = Undefined
    /\ cornersDotStyle = Undefined
    /\ logoUrl = Undefined
    /\ logoImageSize = Undefined
    /\ logoImageMargin = Undefined

\* The owner has set the properties that select the value; the title and
\* styling properties are as constructed.
Init ==
    /\ recordId \in {"001A", Undefined}
    /\ objectApiName \in ObjectNames \cup {Undefined}
    /\ qrCodeValueFieldApiName \in FieldNames \cup {Undefined}
    \* a title field is configured on record pages only
    /\ titleFieldApiName \in (IF UsesRecordField THEN TitleFieldNames ELSE {}) \cup {Undefined}
    /\ valueSource \in ValueSources
    /\ providedValue \in ProvidedValues
    \* the parameter name keeps its default, "qrv", unless the URL parameter is the source
    /\ urlParamName \in (IF valueSource = "URL Parameter"
                         THEN UrlParamNames \cup {Undefined} ELSE {"qrv"})
    /\ InitTitleUnset
    /\ InitStylingUnset
    /\ InitFields

Next ==
    \/ ConnectedCallback
    \/ ScriptLoadResolved
    \/ ScriptLoadRejected
    \/ RenderedCallback
    \/ \E val \in FieldValues, ttl \in TitleValues : WiredRecordData(val, ttl)
    \/ \E err \in Errors : WiredRecordError(err)
    \/ WiredRecordEmpty
    \/ \E state \in NavStates : WiredPageRef(state)
    \/ \E v \in ProvidedValues : SetProvidedValue(v)
    \/ \E r \in RecordIds : SetRecordId(r)

Spec == Init /\ [][Next]_vars

\* The lifecycle, record-snapshot and navigation events alone, for a
\* configuration that stays as constructed: no property is reassigned, no
\* load or fetch fails.
NextEvents ==
    \/ ConnectedCallback
    \/ ScriptLoadResolved
    \/ RenderedCallback
    \/ \E val \in FieldValues, ttl \in TitleValues : WiredRecordData(val, ttl)
    \/ \E state \in NavStates : WiredPageRef(state)

SpecEvents == Init /\ [][NextEvents]_vars

\* The most recent external renderer call.
\* The widget on a site page showing a provided value, under every styling:
\* the owner has set the styling and logo properties (size and margin of the
\* logo only together with a logo).
InitStyling ==
    /\ recordId = Undefined
    /\ objectApiName = Undefined
    /\ qrCodeValueFieldApiName = Undefined
    /\ titleFieldApiName = Undefined
    /\ valueSource = "Provided Value"
    /\ providedValue \in ProvidedValues
    /\ urlParamName = "qrv"
    /\ InitTitleUnset
    /\ qrCodeHeight \in Sizes
    /\ qrCodeWidth = "300"
    /\ qrCodeDotsColor \in Colors
    /\ qrCodeDotsType \in DotsTypes
    /\ backgroundColor = Undefined
    /\ cornersSquareStyle \in CornersSquareStyles
    /\ cornersDotStyle \in CornersDotStyles
    /\ logoUrl \in LogoUrls
    /\ logoImageSize \in (IF Truthy(logoUrl) THEN LogoImageSizes ELSE {Undefined})
    /\ logoImageMargin \in (IF Truthy(logoUrl) THEN LogoImageMargins ELSE {Undefined})
    /\ InitFields

NextStyling ==
    \/ ConnectedCallback
    \/ ScriptLoadResolved
    \/ RenderedCallback

SpecStyling == InitStyling /\ [][NextStyling]_vars

\* The widget with every setting of the title properties and of the field
\* names, before and after record deliveries.
InitTitle ==
    /\ recordId \in {"001A", Undefined}
    /\ objectApiName \in ObjectNames \cup {Undefined}
    /\ qrCodeValueFieldApiName \in FieldNames \cup {Undefined}
    /\ titleFieldApiName \in AllTitleFieldNames
    /\ valueSource = "Provided Value"
    /\ providedValue = Undefined
    /\ urlParamName = "qrv"
    /\ showTitle \in BOOLEAN
    /\ titleStaticValue \in TitleStaticValues
    /\ InitStylingUnset
    /\ InitFields

NextTitle ==
    \/ ConnectedCallback
    \/ RenderedCallback
    \/ \E val \in FieldValues, ttl \in TitleValues : WiredRecordData(val, ttl)
    \/ \E err \in Errors : WiredRecordError(err)

SpecTitle == InitTitle /\ [][NextTitle]_vars

\* ------------------------------ the first iteration (qrCode.js) as a machine
\* Its flag qrCodeLibLoaded says that the script load has been started; it has
\* no domReady and no scriptLoadStarted, and the value field is the property
\* qrCodeValueApiName (the variable qrCodeValueFieldApiName).

\* renderedCallback of qrCode.js: starts the script load on the first render pass.
QrCodeJs_RenderedCallback ==
    /\ IF qrCodeLibLoaded THEN
           UNCHANGED <<qrCodeLibLoaded, scriptPromise, loadScriptCalls>>
       ELSE
           /\ qrCodeLibLoaded' = TRUE
           /\ scriptPromise' = "pending"
           /\ loadScriptCalls' = loadScriptCalls + 1
    /\ qrDivPresent' = TemplateHasMountPoint
    /\ UNCHANGED <<config, record, error, urlParamValue, qrCodeInstance, domReady,
                   scriptLoadStarted, qrDivContent, calls>>

\* loadScript(...).then(() => this.generateQRCode()) of qrCode.js; a TypeError
\* thrown by generateQRCode is caught and logged.
QrCodeJs_ScriptLoadResolved ==
    /\ scriptPromise = "pending"
    /\ scriptPromise' = "fulfilled"
    /\ IF ~qrDivPresent \/ QrCodeJs_GenerateQRCodeOptions = TypeErrorRaised THEN
           UNCHANGED <<qrCodeInstance, qrDivContent, calls>>
       ELSE
           /\ qrCodeInstance' = Instance(NewId(calls), QrCodeJs_GenerateQRCodeOptions)
           /\ qrDivContent' = qrDivContent \cup {NewId(calls)}
           /\ calls' = Append(calls, [op |-> "create", id |-> NewId(calls),
                                       options |-> QrCodeJs_GenerateQRCodeOptions])
    /\ UNCHANGED <<config, record, error, urlParamValue, qrCodeLibLoaded, domReady,
                   scriptLoadStarted, loadScriptCalls, qrDivPresent>>

\* The unqualified names of the fields qrCode.js subscribes to.
QrCodeJs_RequestedNames ==
    {Trim(Or(titleFieldApiName, "Id")), Trim(Or(qrCodeValueFieldApiName, "Id"))}

\* wiredRecord({ data }) of qrCode.js
QrCodeJs_WiredRecordData(val, ttl) ==
    /\ Truthy(recordId)
    /\ record' = Snapshot(recordId, QrCodeJs_RequestedNames, val, ttl)
    /\ error' = Undefined
    /\ UNCHANGED <<config, urlParamValue, qrCodeInstance, qrCodeLibLoaded, domReady,
                   scriptLoadStarted, environment, calls>>

\* wiredRecord({ error }) of qrCode.js
QrCodeJs_WiredRecordError(err) ==
    /\ Truthy(recordId)
    /\ record' = UndefinedRecord
    /\ error' = err
    /\ UNCHANGED <<config, urlParamValue, qrCodeInstance, qrCodeLibLoaded, domReady,
                   scriptLoadStarted, environment, calls>>

InitQrCodeJs ==
    /\ recordId \in {"001A", Undefined}
    /\ objectApiName \in ObjectNames \cup {Undefined}
    /\ qrCodeValueFieldApiName \in FieldNames \cup {Undefined}
    /\ titleFieldApiName \in TitleFieldNames \cup {Undefined}
    /\ valueSource = "Provided Value"
    /\ providedValue = Undefined
    /\ urlParamName = "qrv"
    /\ InitTitleUnset
    /\ qrCodeHeight = Undefined
    /\ qrCodeWidth = Undefined
    /\ qrCodeDotsColor = Undefined
    /\ qrCodeDotsType = "Rounded"
    /\ backgroundColor = Undefined
    /\ cornersSquareStyle \in CornersSquareStyles
    /\ cornersDotStyle \in CornersDotStyles
    /\ logoUrl = Undefined
    /\ logoImageSize = Undefined
    /\ logoImageMargin = Undefined
    /\ InitFields

NextQrCodeJs ==
    \/ QrCodeJs_RenderedCallback
    \/ QrCodeJs_ScriptLoadResolved
    \/ ScriptLoadRejected
    \/ \E val \in FieldValues, ttl \in TitleValues : QrCodeJs_WiredRecordData(val, ttl)
    \/ \E err \in Errors : QrCodeJs_WiredRecordError(err)

SpecQrCodeJs == InitQrCodeJs /\ [][NextQrCodeJs]_vars

\* qrCode.js never holds a snapshot and an error together.
QrCodeJs_SnapshotXorError == record = UndefinedRecord \/ error = Undefined

\* qrCode.js invokes loadScript at most once, however often renderedCallback runs.
QrCodeJs_LoadStartedAtMostOnce ==
    /\ loadScriptCalls <= 1
    /\ (loadScriptCalls = 1) = qrCodeLibLoaded
    /\ (loadScriptCalls = 0) = (scriptPromise = "none")
    /\ Len(calls) <= 1

LastCall == calls[Len(calls)]

\* ------------------------------------------------------------------ claims

\* C1: No premature render.  isReadyToRender is exactly domReady and
\* qrCodeLibLoaded and (in record-field mode) a stored record snapshot, and
\* every step that issues a create or update call is taken with DOM mounted,
\* script loaded, (in record-field mode) a snapshot stored and a non-empty
\* resolved value at that moment.
C1_NoPrematureRender ==
    /\ [](IsReadyToRender <=>
            (domReady /\ qrCodeLibLoaded /\ (UsesRecordField => record # UndefinedRecord)))
    /\ [][calls' # calls =>
            /\ UNCHANGED config
            /\ domReady' /\ qrCodeLibLoaded'
            /\ (UsesRecordField => record' # UndefinedRecord)
            /\ QrValueResolvedOf(record', urlParamValue', providedValue')
                  \notin {Undefined, Null, ""}
            /\ LastCall'.options.data =
                  QrValueResolvedOf(record', urlParamValue', providedValue')]_vars

\* C1 witness: in record-field mode a create call has been issued.
C1_Witness ==
    /\ UsesRecordField
    /\ Len(calls) = 1
    /\ calls[1].op = "create"
    /\ qrCodeInstance # NoInstance

\* C2: Single render handle.  The mount point holds at most one artifact, the
\* one of the live handle; a create call is issued only while the handle is
\* null, an update call goes to the live handle, and the handle is never
\* replaced by another one without being cleared in between.
C2_SingleHandle ==
    /\ [](/\ Cardinality(qrDivContent) <= 1
          /\ (qrCodeInstance = NoInstance => qrDivContent = {})
          /\ (qrCodeInstance # NoInstance => qrDivContent = {qrCodeInstance.id}))
    /\ [][/\ (calls' # calls /\ LastCall'.op = "create") => qrCodeInstance = NoInstance
          /\ (calls' # calls /\ LastCall'.op = "update") =>
                /\ qrCodeInstance # NoInstance
                /\ LastCall'.id = qrCodeInstance.id
                /\ qrCodeInstance'.id = qrCodeInstance.id
          /\ (qrCodeInstance # NoInstance /\ qrCodeInstance' # NoInstance) =>
                qrCodeInstance'.id = qrCodeInstance.id]_vars

\* C2 witness: a create has been followed by an update on the same handle.
C2_Witness ==
    /\ Len(calls) = 2
    /\ calls[1].op = "create"
    /\ calls[2].op = "update"
    /\ calls[2].id = calls[1].id
    /\ qrCodeInstance # NoInstance
    /\ qrCodeInstance.id = calls[1].id

\* The evaluate-and-render step invoked on the current state, and invoked
\* again on the state the first invocation leaves.
FirstEvaluate ==
    TryRenderResult(domReady, qrCodeLibLoaded, record, urlParamValue, qrDivPresent,
                    qrCodeInstance, qrDivContent, calls)
SecondEvaluate ==
    TryRenderResult(domReady, qrCodeLibLoaded, record, urlParamValue, qrDivPresent,
                    FirstEvaluate.instance, FirstEvaluate.content, FirstEvaluate.calls)

\* C3 as stated: in every reachable state, invoking the evaluate-and-render
\* step twice in succession issues at most one create-or-update call: the
\* second invocation issues none.
C3_SecondIsNoOp ==
    SecondEvaluate.calls = FirstEvaluate.calls

\* C3 as amended: in every reachable state, the second of two successive
\* invocations of the evaluate-and-render step constructs no new instance and
\* leaves the render handle and the mount point as the first left them; it
\* issues no call when the first issued none, and otherwise exactly one update
\* call, on the same handle and with the options of the first's call.
C3_SecondIsSameUpdate ==
    /\ SecondEvaluate.instance = FirstEvaluate.instance
    /\ SecondEvaluate.content = FirstEvaluate.content
    /\ SecondEvaluate.calls =
         IF FirstEvaluate.calls = calls THEN FirstEvaluate.calls
         ELSE Append(FirstEvaluate.calls,
                     [op |-> "update",
                      id |-> FirstEvaluate.calls[Len(FirstEvaluate.calls)].id,
                      options |-> FirstEvaluate.calls[Len(FirstEvaluate.calls)].options])

\* C3 witness: a create and then, with nothing changed, an update with the
\* same options on the same handle.
C3_Witness ==
    /\ Len(calls) = 2
    /\ calls[1].op = "create"
    /\ calls[2] = [op |-> "update", id |-> calls[1].id, options |-> calls[1].options]
    /\ qrCodeInstance = Instance(calls[1].id, calls[1].options)

\* C4 as stated: in record-field mode a record-data delivery that carries an
\* error issues no create or update call and leaves the mount point empty and
\* the render handle null.
C4_ErrorClearsArtifact ==
    [][(UsesRecordField /\ \E err \in Errors : WiredRecordError(err)) =>
        /\ calls' = calls
        /\ qrDivContent' = {}
        /\ qrCodeInstance' = NoInstance]_vars

\* The qualified value field and the unqualified name it names in a snapshot.
ValueFieldName == Trim(qrCodeValueFieldApiName)

\* C5: Clear then fresh create.  Whenever the widget is ready (DOM mounted,
\* script loaded, in record-field mode a snapshot stored) and the resolved
\* value is empty, the evaluate-and-render step leaves the mount point empty
\* and the render handle null without calling the renderer; and a step that
\* calls the renderer while no handle is live issues a create call for an
\* instance that no earlier call named.
C5_ClearThenFreshCreate ==
    /\ []((/\ domReady /\ qrCodeLibLoaded /\ qrDivPresent
           /\ (UsesRecordField => record # UndefinedRecord)
           /\ QrValueResolved \in {Undefined, Null, ""}) =>
            /\ FirstEvaluate.instance = NoInstance
            /\ FirstEvaluate.content = {}
            /\ FirstEvaluate.calls = calls)
    /\ [][(calls' # calls /\ qrCodeInstance = NoInstance) =>
            /\ calls' = Append(calls, LastCall')
            /\ LastCall'.op = "create"
            /\ \A i \in 1..Len(calls) : calls[i].id # LastCall'.id
            /\ qrCodeInstance' = Instance(LastCall'.id, LastCall'.options)
            /\ qrDivContent' = {LastCall'.id}]_vars

\* C5 witness: an artifact was created, cleared when the value became empty,
\* and created afresh when a value came back.
C5_Witness ==
    /\ Len(calls) = 2
    /\ calls[1].op = "create"
    /\ calls[2].op = "create"
    /\ calls[2].id # calls[1].id
    /\ qrCodeInstance # NoInstance
    /\ qrCodeInstance.id = calls[2].id
    /\ qrDivContent = {calls[2].id}

\* C6 as stated: in record-field mode the resolved value is null while no
\* snapshot is stored, and otherwise is the value, at the value field, of a
\* snapshot of the record currently requested (never of another record).
C6_NeverStale ==
    UsesRecordField =>
        IF record = UndefinedRecord THEN QrValueResolved = Null
        ELSE /\ record.id = recordId
             /\ ValueFieldName \in DOMAIN record.fields
             /\ QrValueResolved = record.fields[ValueFieldName]

\* The mode that, by the precedence order, is selected.
SelectedMode ==
    IF recordId \notin {Undefined, Null, ""} /\ objectApiName \notin {Undefined, Null, ""}
       /\ qrCodeValueFieldApiName \notin {Undefined, Null, ""}
    THEN "record-field"
    ELSE IF valueSource = "URL Parameter" THEN "URL-parameter"
    ELSE "provided-value"

\* C7: Mode precedence is total and exclusive.  The resolved value is the
\* value of the selected mode's source alone (null when that is empty), and a
\* step that changes an input of a mode that is not selected (the provided
\* value, the cached URL parameter value, the record snapshot) leaves the
\* resolved value as it was.
C7_ModePrecedence ==
    /\ [](QrValueResolved =
            CASE SelectedMode = "record-field" ->
                   IF record # UndefinedRecord /\ ValueFieldName \in DOMAIN record.fields
                   THEN record.fields[ValueFieldName] ELSE Null
              [] SelectedMode = "URL-parameter" ->
                   IF urlParamValue \in {Undefined, Null, ""} THEN Null ELSE urlParamValue
              [] SelectedMode = "provided-value" ->
                   IF providedValue \in {Undefined, Null, ""} THEN Null ELSE providedValue)
    /\ [][(\/ SelectedMode # "provided-value" /\ providedValue' # providedValue
           \/ SelectedMode # "URL-parameter" /\ urlParamValue' # urlParamValue
           \/ SelectedMode # "record-field" /\ record' # record) =>
            /\ UNCHANGED <<recordId, objectApiName, qrCodeValueFieldApiName, valueSource>>
            /\ QrValueResolvedOf(record', urlParamValue', providedValue') =
                 QrValueResolved]_vars

\* C7 witness: URL-parameter mode is selected and resolves to the URL
\* parameter while a different provided value and a record snapshot are there.
C7_Witness ==
    /\ SelectedMode = "URL-parameter"
    /\ providedValue \in DataValues
    /\ urlParamValue \in DataValues
    /\ providedValue # urlParamValue
    /\ record # UndefinedRecord
    /\ QrValueResolved = urlParamValue

\* C8: Script-load failure is permanent.  Once the script load has failed it
\* stays failed (it is not started again), qrCodeLibLoaded is and stays
\* false, and no create or update call has been or is ever issued.
C8_LoadFailureIsPermanent ==
    /\ [](scriptPromise = "rejected" =>
            ~qrCodeLibLoaded /\ calls = <<>> /\ qrCodeInstance = NoInstance)
    /\ [][scriptPromise = "rejected" =>
            scriptPromise' = "rejected" /\ ~qrCodeLibLoaded' /\ calls' = calls]_vars

\* C8 witness: the load has failed while the DOM is mounted and, in
\* record-field mode, a snapshot with a non-empty value is stored.
C8_Witness ==
    /\ scriptPromise = "rejected"
    /\ domReady
    /\ UsesRecordField
    /\ record # UndefinedRecord
    /\ QrValueResolved \in DataValues

\* C9: Order independence.  In whatever order the DOM-mount, script-load,
\* record-snapshot and navigation-state events were delivered, once the DOM is
\* mounted and the script loaded a render handle exists exactly when the
\* resolved value is non-empty, and the data the handle holds, which is the
\* data of the last renderer call, is the current resolved value.
C9_OrderIndependence ==
    (domReady /\ qrCodeLibLoaded) =>
        /\ (qrCodeInstance # NoInstance) <=> (QrValueResolved \notin {Undefined, Null, ""})
        /\ qrCodeInstance # NoInstance =>
             /\ qrCodeInstance.options.data = QrValueResolved
             /\ LastCall.id = qrCodeInstance.id
             /\ LastCall.options.data = QrValueResolved

\* C9 witness: in record-field mode everything has been delivered and the
\* snapshot's value is rendered by a single create call.
C9_Witness ==
    /\ UsesRecordField
    /\ domReady /\ qrCodeLibLoaded
    /\ record # UndefinedRecord
    /\ QrValueResolved = "XYZ2"
    /\ Len(calls) = 1
    /\ qrCodeInstance # NoInstance

\* C10: URL-parameter scenario.  With the URL parameter as the source and the
\* parameter name "qrv", DOM mounted and script loaded, a navigation event whose
\* state carries a non-empty qrv issues exactly one renderer call with that
\* value as data: a create call when no handle is live, and an update call on
\* the live handle, with no new create, when one is.
C10_UrlParameterScenario ==
    (/\ SelectedMode = "URL-parameter" /\ urlParamName = "qrv"
     /\ domReady /\ qrCodeLibLoaded /\ Len(calls) < MaxCalls) =>
        \A state \in NavStates :
            state["qrv"] \in DataValues =>
                ENABLED (/\ WiredPageRef(state)
                         /\ Len(calls') = Len(calls) + 1
                         /\ SubSeq(calls', 1, Len(calls)) = calls
                         /\ LastCall'.options.data = state["qrv"]
                         /\ IF qrCodeInstance = NoInstance
                            THEN /\ LastCall'.op = "create"
                                 /\ \A i \in 1..Len(calls) : calls[i].id # LastCall'.id
                            ELSE /\ LastCall'.op = "update"
                                 /\ LastCall'.id = qrCodeInstance.id)

\* C10 witness: qrv = "XYZ" arrived after mount and load and was created, then
\* qrv = "XYZ2" arrived and was an update of the same instance.
C10_Witness ==
    /\ SelectedMode = "URL-parameter" /\ urlParamName = "qrv"
    /\ urlParamValue = "XYZ2"
    /\ Len(calls) = 2
    /\ calls[1].op = "create" /\ calls[1].options.data = "XYZ"
    /\ calls[2].op = "update" /\ calls[2].options.data = "XYZ2"
    /\ calls[2].id = calls[1].id

\* C11: with the provided value as the source and a non-empty provided value,
\* the step that completes readiness (the mount point rendered and the script
\* loaded, in either order) issues exactly one renderer call, a create whose
\* options carry the provided value as data and error correction level "H";
\* and every options object built, whatever the configuration, carries error
\* correction level "H".
C11_AlwaysLevelH ==
    /\ \A i \in 1..Len(calls) : calls[i].options.qrOptions.errorCorrectionLevel = "H"
    /\ qrCodeInstance # NoInstance =>
           qrCodeInstance.options.qrOptions.errorCorrectionLevel = "H"
    /\ \A d \in ProvidedValues \cup {Null} :
           BuildOptions(d).qrOptions.errorCorrectionLevel = "H"
    /\ QrCodeJs_GenerateQRCodeOptions # TypeErrorRaised =>
           QrCodeJs_GenerateQRCodeOptions.qrOptions.errorCorrectionLevel = "H"

C11_ReadinessCompleted ==
    /\ ~(domReady /\ qrCodeLibLoaded)
    /\ domReady' /\ qrCodeLibLoaded'

C11_ProvidedValueScenario ==
    /\ []C11_AlwaysLevelH
    /\ [][(/\ SelectedMode = "provided-value"
           /\ Truthy(providedValue)
           /\ C11_ReadinessCompleted)
          => /\ calls = <<>>
             /\ Len(calls') = 1
             /\ calls'[1].op = "create"
             /\ calls'[1].options.data = providedValue
             /\ calls'[1].options.qrOptions.errorCorrectionLevel = "H"
             /\ qrCodeInstance' = Instance(calls'[1].id, calls'[1].options)]_vars

C11_Witness ==
    /\ SelectedMode = "provided-value"
    /\ Truthy(providedValue)
    /\ domReady /\ qrCodeLibLoaded
    /\ Len(calls) = 1
    /\ calls[1].op = "create"
    /\ calls[1].options.data = providedValue
    /\ "image" \in DOMAIN calls[1].options
    /\ calls[1].options.image = "/logo.png"
    /\ calls[1].options.cornersSquareOptions.type = "extra-rounded"

\* C12: the DOM-mounted flag and the script-loaded flag never go from true to
\* false; the record-fetched signal (a snapshot is stored, the record part of
\* isReadyToRender) goes from true to false only in a step that changes the
\* record id.
C12_ReadinessMonotone ==
    [][/\ domReady => domReady'
       /\ qrCodeLibLoaded => qrCodeLibLoaded'
       /\ (UsesRecordField /\ record # UndefinedRecord /\ record' = UndefinedRecord)
              => recordId' # recordId]_vars

\* C13: a snapshot delivery stores the snapshot, makes the record-fetched
\* signal true and clears the error; an error delivery stores the error and
\* clears the snapshot, while the record-fetched signal (the record part of
\* isReadyToRender) keeps the value it had before the delivery.
C13_DeliveriesAndReadiness ==
    [][/\ (\E val \in FieldValues, ttl \in TitleValues : WiredRecordData(val, ttl))
           => /\ record' # UndefinedRecord
              /\ record'.id = recordId
              /\ IsReadyToRenderOf(TRUE, TRUE, record')
              /\ error' = Undefined
       /\ \A err \in Errors :
              WiredRecordError(err)
              => /\ error' = err
                 /\ record' = UndefinedRecord
                 /\ IsReadyToRenderOf(TRUE, TRUE, record')
                        = IsReadyToRenderOf(TRUE, TRUE, record)]_vars

\* C14: in record-field mode, after an error delivery the resolved value is
\* null; and if the DOM is mounted and the script loaded, the later delivery of
\* a snapshot with a non-empty value field clears the error and issues exactly
\* one renderer call, a create or an update, with that value as data.
C14_ErrorsRecoverable ==
    /\ []((UsesRecordField /\ error # Undefined) =>
             (record = UndefinedRecord /\ QrValueResolved = Null))
    /\ [][(/\ UsesRecordField
           /\ error # Undefined
           /\ domReady /\ qrCodeLibLoaded
           /\ record' # UndefinedRecord
           /\ Truthy(QrValueResolvedOf(record', urlParamValue', providedValue')))
          => /\ error' = Undefined
             /\ Len(calls') = Len(calls) + 1
             /\ calls'[Len(calls')].op \in {"create", "update"}
             /\ calls'[Len(calls')].options.data =
                    QrValueResolvedOf(record', urlParamValue', providedValue')
             /\ qrCodeInstance' =
                    Instance(calls'[Len(calls')].id, calls'[Len(calls')].options)]_vars

C14_Witness ==
    /\ UsesRecordField
    /\ error # Undefined
    /\ domReady /\ qrCodeLibLoaded
    /\ qrCodeInstance # NoInstance
    /\ qrCodeInstance.options.data = "XYZ"
    /\ ENABLED (/\ WiredRecordData("XYZ2", "Acme")
                /\ calls'[Len(calls')] = [op |-> "update", id |-> qrCodeInstance.id,
                                          options |-> BuildOptions("XYZ2")])

\* C15: when the evaluate-and-render step runs while the widget is not ready to
\* render, or while the mount point is missing, it issues no renderer call and
\* leaves the render handle and the mount point's content as they are; the
\* handlers' steps that end not ready change none of the three.
C15_DeferredTouchesNothing ==
    /\ [](\A div \in BOOLEAN :
             (\/ ~(domReady /\ qrCodeLibLoaded)
              \/ UsesRecordField /\ record = UndefinedRecord
              \/ ~div)
             => TryRenderResult(domReady, qrCodeLibLoaded, record, urlParamValue, div,
                                qrCodeInstance, qrDivContent, calls)
                = [instance |-> qrCodeInstance, content |-> qrDivContent,
                   calls |-> calls])
    /\ [][(\/ ~(domReady' /\ qrCodeLibLoaded')
           \/ UsesRecordField /\ record' = UndefinedRecord /\ UNCHANGED config)
          => UNCHANGED <<qrCodeInstance, qrDivContent, calls>>]_vars

C15_Witness ==
    /\ domReady
    /\ ~qrCodeLibLoaded
    /\ HasQrValue
    /\ qrCodeInstance = NoInstance
    /\ qrDivContent = {}
    /\ calls = <<>>

\* The value the navigation state holds for the configured parameter name
\* (trimmed; "qrv" when none is configured), null when the state has no such
\* key or holds an empty value for it.
C16_Lookup(state) ==
    LET name == IF urlParamName \in {Undefined, Null, ""} THEN "qrv"
                ELSE Trim(urlParamName)
    IN  IF name \in DOMAIN state /\ state[name] \notin {Undefined, Null, ""}
        THEN state[name]
        ELSE Null

\* C16: in URL-parameter mode the resolved value is the cached URL parameter
\* value (null when none is cached), and each navigation event leaves the cache,
\* and so the resolved value, equal to the lookup of the configured name in the
\* event's navigation state.
C16_UrlParameterLookup ==
    /\ [](SelectedMode = "URL-parameter" =>
             QrValueResolved = IF urlParamValue = Undefined THEN Null ELSE urlParamValue)
    /\ [][SelectedMode = "URL-parameter" =>
             \A state \in NavStates :
                 WiredPageRef(state) =>
                     /\ urlParamValue' = C16_Lookup(state)
                     /\ QrValueResolvedOf(record', urlParamValue', providedValue')
                            = C16_Lookup(state)]_vars

C16_Witness ==
    /\ SelectedMode = "URL-parameter"
    /\ urlParamName = " k "
    /\ urlParamValue = "XYZ"
    /\ QrValueResolved = "XYZ"

\* C17: a navigation event in record-field mode changes no state of the widget
\* and issues no renderer call or clearing; in provided-value mode it issues no
\* renderer call, leaves the handle and the mount point alone and does not
\* change the resolved value.
C17_NavigationIrrelevant ==
    [][\/ SelectedMode = "URL-parameter"
       \/ /\ SelectedMode = "record-field" => UNCHANGED vars
          /\ SelectedMode = "provided-value" =>
                 /\ UNCHANGED <<calls, qrCodeInstance, qrDivContent>>
                 /\ QrValueResolvedOf(record', urlParamValue', providedValue')
                        = QrValueResolved
       \/ \A state \in NavStates : ~WiredPageRef(state)]_vars

C17_Witness ==
    /\ SelectedMode = "provided-value"
    /\ urlParamValue = Null
    /\ qrCodeInstance # NoInstance
    /\ qrCodeInstance.options.data = providedValue
    /\ Len(calls) = 1

\* The corner type the options are to carry for a configured style: none for
\* "None" and for an absent or empty style, otherwise the style in lower case.
C18_ExpectedType(style) ==
    IF style \in {"None", Undefined, Null, ""} THEN Undefined
    ELSE LowerCaseString(style)

\* buildOptions (part_000) carries the expected corner types in every options
\* object it builds.
C18_BuildOptionsCorners ==
    \A d \in ProvidedValues \cup {Null} :
        /\ BuildOptions(d).cornersSquareOptions.type = C18_ExpectedType(cornersSquareStyle)
        /\ BuildOptions(d).cornersDotOptions.type = C18_ExpectedType(cornersDotStyle)

\* C18: for the corner-square and the corner-dot style alike, the options built
\* carry no type when the configured style is "None", absent or empty, and the
\* style in lower case otherwise; and building the options raises no error in
\* any of these cases.  Stated of buildOptions and, once the script has loaded
\* and with a dots type set, of the options generateQRCode of qrCode.js builds.
C18_CornerStyles ==
    /\ C18_BuildOptionsCorners
    /\ (qrCodeLibLoaded /\ Truthy(qrCodeDotsType)) =>
           /\ QrCodeJs_GenerateQRCodeOptions # TypeErrorRaised
           /\ QrCodeJs_GenerateQRCodeOptions.cornersSquareOptions.type
                  = C18_ExpectedType(cornersSquareStyle)
           /\ QrCodeJs_GenerateQRCodeOptions.cornersDotOptions.type
                  = C18_ExpectedType(cornersDotStyle)

\* qualify(objectType, fieldName) as the claim states it.
C19_Expected(fieldName) ==
    IF fieldName \in {Undefined, Null, ""} \/ Trim(fieldName) = "" THEN Null
    ELSE IF objectApiName \in {Undefined, Null, ""} THEN Null
    ELSE objectApiName \o "." \o Trim(fieldName)

\* The field names the qualifier is checked on.
C19_FieldNames == AllTitleFieldNames \cup FieldNames \cup {"", Null}

\* C19 (as stated): the field qualifier returns null when the trimmed field name
\* is empty (an absent name included) or the object type is absent, and
\* otherwise the object type, a dot and the trimmed name.  Stated of
\* getQualifiedFieldName of part_000 and of qrCode.js.
C19_Qualify ==
    \A f \in C19_FieldNames \cup {titleFieldApiName, qrCodeValueFieldApiName} :
        /\ GetQualifiedFieldName(f) = C19_Expected(f)
        /\ QrCodeJs_GetQualifiedFieldName(f) = C19_Expected(f)

\* C19 (amended): getQualifiedFieldName of part_000 is as stated; that of
\* qrCode.js returns null only when the object type is absent, and otherwise
\* the object type, a dot and the trimmed name, where an absent or empty name
\* stands for "Id".
C19_QualifyPerVariant ==
    \A f \in C19_FieldNames \cup {titleFieldApiName, qrCodeValueFieldApiName} :
        /\ GetQualifiedFieldName(f) = C19_Expected(f)
        /\ QrCodeJs_GetQualifiedFieldName(f) =
               IF objectApiName \in {Undefined, Null, ""} THEN Null
               ELSE objectApiName \o "." \o
                    (IF f \in {Undefined, Null, ""} THEN "Id" ELSE Trim(f))

C19_Witness ==
    /\ objectApiName = "Account"
    /\ titleFieldApiName = " Name "
    /\ GetQualifiedFieldName(titleFieldApiName) = "Account.Name"
    /\ QrCodeJs_GetQualifiedFieldName(Undefined) = "Account.Id"
    /\ record # UndefinedRecord
    /\ "Name" \in DOMAIN record.fields

\* The title as the claim states it.
C20_Expected ==
    IF ~showTitle THEN Null
    ELSE LET name == IF titleFieldApiName \in {Undefined, Null, ""} THEN ""
                     ELSE Trim(titleFieldApiName)
             val == IF /\ SelectedMode = "record-field"
                       /\ record # UndefinedRecord
                       /\ name \in DOMAIN record.fields
                    THEN record.fields[name]
                    ELSE Null
         IN  IF val \notin {Undefined, Null, ""} THEN val
             ELSE IF titleStaticValue \notin {Undefined, Null, ""} THEN titleStaticValue
             ELSE "QR Code"

\* C20 (as stated): the title is null when the title display is disabled;
\* otherwise it is the snapshot's value at the qualified title field when
\* record-field mode is active and that value is non-empty; otherwise the static
\* title, or "QR Code" when none is configured.  Stated of the title getter of
\* part_000 and of qrCode.js.
C20_Title ==
    /\ Title = C20_Expected
    /\ QrCodeJs_Title = C20_Expected

\* C20 (amended): the title getter of part_000 is as stated; that of qrCode.js
\* consults neither the toggle nor a static title: it is "QR Code" while no
\* snapshot is stored, and otherwise the snapshot's value at the qualified
\* title field, empty or not.
C20_TitlePerVariant ==
    /\ Title = C20_Expected
    /\ record = UndefinedRecord => QrCodeJs_Title = "QR Code"
    /\ (/\ record # UndefinedRecord
        /\ Truthy(objectApiName)
        /\ Truthy(titleFieldApiName)
        /\ Trim(titleFieldApiName) \in DOMAIN record.fields)
       => QrCodeJs_Title = record.fields[Trim(titleFieldApiName)]

C20_Witness ==
    /\ showTitle
    /\ SelectedMode = "record-field"
    /\ titleStaticValue = "My QR"
    /\ record # UndefinedRecord
    /\ "Name" \in DOMAIN record.fields
    /\ record.fields["Name"] = "Acme"
    /\ Title = "Acme"
    /\ QrCodeJs_Title = "Acme"

\* C21: the stored record snapshot and the stored record error are never both
\* set; every step that stores a snapshot leaves the error cleared and every
\* step that stores an error leaves the snapshot cleared.
C21_SnapshotXorError ==
    /\ [](record = UndefinedRecord \/ error = Undefined)
    /\ [][/\ (record' # record /\ record' # UndefinedRecord) => error' = Undefined
          /\ (error' # error /\ error' # Undefined) => record' = UndefinedRecord]_vars

C21_Witness ==
    /\ UsesRecordField
    /\ error = "FetchError"
    /\ record = UndefinedRecord
    /\ qrCodeInstance # NoInstance
    /\ Len(calls) = 2

\* C22: loadScript is invoked at most once for a widget instance, however often
\* the connect and render-pass callbacks run and whether the load is pending,
\* has succeeded or has failed: the one invocation is the one that made the
\* promise, and no step makes another.
C22_LoadStartedAtMostOnce ==
    /\ [](/\ loadScriptCalls <= 1
          /\ (loadScriptCalls = 1) = scriptLoadStarted
          /\ (loadScriptCalls = 0) = (scriptPromise = "none"))
    /\ [][loadScriptCalls = 1 => loadScriptCalls' = 1]_vars

C22_Witness ==
    /\ loadScriptCalls = 1
    /\ scriptPromise = "fulfilled"
    /\ domReady
    /\ Len(calls) = MaxCalls

\* C23: a record delivery that carries neither a snapshot nor an error cannot
\* change the stored snapshot, the stored error, the render handle, the mount
\* point's content or the renderer calls issued: it runs no evaluate-and-render
\* step, not even where that step would issue a call.
C23_EmptyDeliveryChangesNothing ==
    ~ENABLED (/\ WiredRecordEmpty
              /\ <<record, error, qrCodeInstance, qrDivContent, calls>>'
                     # <<record, error, qrCodeInstance, qrDivContent, calls>>)

C23_Witness ==
    /\ UsesRecordField
    /\ IsReadyToRender
    /\ HasQrValue
    /\ qrCodeInstance # NoInstance
    /\ qrDivPresent
    /\ Len(calls) < MaxCalls
    /\ ENABLED WiredRecordEmpty

====
